---- MODULE Spec2Model ----
(***************************************************************************)
(* Model of src-tauri/src/lib.rs: the generate_pdf command (temporary      *)
(* input file, output path, the wkhtmltopdf -> weasyprint renderer chain,  *)
(* the lpr / default-viewer dispatch) and the list_printers command.       *)
(*                                                                         *)
(* Dimensions are f64 millimetres in the source; the model carries them    *)
(* as integers in hundredths of a millimetre (6205 is 62.05 mm).           *)
(* External programs are black boxes: whether a program can be spawned,    *)
(* its exit status and whether it wrote the output file are chosen         *)
(* nondeterministically.                                                   *)
(***************************************************************************)
EXTENDS Integers, Sequences, FiniteSets, TLC

VARIABLES
    pc,          \* position of each invocation of generate_pdf
    options,     \* the PrintOptions argument of each invocation
    html_file,   \* state of the invocation's temporary input file (temp_html)
    pdf_path,    \* pdf_path_str of each invocation (<<>> before it is computed)
    files,       \* the PDF paths that exist in the temporary directory
    now,         \* the wall clock, in milliseconds since the epoch
    launched,    \* per invocation: the external commands it ran, in order
    result,      \* the Result<String, String> each invocation returned
    lp_pc,       \* position of the call of list_printers
    lp_run,      \* what became of the lpstat command of list_printers
    lp_stdout,   \* output.stdout of lpstat, a sequence of characters
    lp_result    \* the Result<Vec<String>, String> list_printers returned

lpvars == <<lp_pc, lp_run, lp_stdout, lp_result>>

vars == <<pc, options, html_file, pdf_path, files, now, launched, result, lpvars>>

(* ---------------------------- bounds ----------------------------------- *)

MaxClock == 2

\* longest lpstat output considered, in characters
MaxStdout == 4

(* ---------------------------- inputs ----------------------------------- *)

Invocations == {1, 2}

\* Option<String>: <<>> is None, <<n>> is Some(n)
PrinterNames == {"BrotherQL", "Zebra"}
PrinterOptions == {<<>>} \cup {<<n>> : n \in PrinterNames}

\* width_mm, height_mm in hundredths of a millimetre
WidthsMm100 == {-500, 0, 6200, 6205}
HeightsMm100 == {0, 2575, 10000}

PrintOptions == [width_mm : WidthsMm100, height_mm : HeightsMm100,
                 printer_name : PrinterOptions]

(* ---------------------------- values ----------------------------------- *)

Ok(msg, arg) == [ok |-> TRUE, msg |-> msg, arg |-> arg]
Err(msg, arg) == [ok |-> FALSE, msg |-> msg, arg |-> arg]
NoResult == [ok |-> FALSE, msg |-> "", arg |-> <<>>]

\* temp_html.path(): a name the tempfile crate makes unique per call
HtmlPath(p) == <<"tmp", ".tmp", p, ".html">>

\* temp_dir.join(format!("label_{}.pdf", millis))
PdfPath(ms) == <<"tmp", "label_", ms, ".pdf">>

\* `(mm * 10.0) as u32`: the cast truncates toward zero and saturates, so a
\* negative product gives 0 (the inputs stay far below u32::MAX)
AsU32Tenths(mm100) == IF mm100 <= 0 THEN 0 ELSE mm100 \div 10

(* ------------------------ command construction ------------------------- *)

WkhtmltopdfCommand(o, input, output) ==
    [prog |-> "wkhtmltopdf", size |-> <<o.width_mm, o.height_mm>>,
     unit |-> "mm", printer |-> <<>>,
     opts |-> {"--margin-top 0", "--margin-bottom 0", "--margin-left 0",
               "--margin-right 0", "--disable-smart-shrinking"},
     input |-> input, file |-> output, outcome |-> "running"]

WeasyprintCommand(o, input, output) ==
    [prog |-> "weasyprint", size |-> <<o.width_mm, o.height_mm>>,
     unit |-> "mm", printer |-> <<>>, opts |-> {},
     input |-> input, file |-> output, outcome |-> "running"]

\* the lpr command of the branch taken after a wkhtmltopdf success
LprCommandWk(o, output) ==
    [prog |-> "lpr",
     size |-> <<AsU32Tenths(o.width_mm), AsU32Tenths(o.height_mm)>>,
     unit |-> "PageSize=Custom tenths", printer |-> o.printer_name,
     opts |-> {"fit-to-page=false", "scaling=100", "print-scaling=none"},
     input |-> <<>>, file |-> output, outcome |-> "running"]

\* variant: width and height are exchanged in the page size
LprCommandWeasy_SwapsDimensions(o, output) ==
    [prog |-> "lpr",
     size |-> <<AsU32Tenths(o.height_mm), AsU32Tenths(o.width_mm)>>,
     unit |-> "PageSize=Custom tenths", printer |-> o.printer_name,
     opts |-> {"fit-to-page=false", "scaling=100", "print-scaling=none"},
     input |-> <<>>, file |-> output, outcome |-> "running"]

\* the lpr command of the branch taken after a weasyprint success
LprCommandWeasy(o, output) ==
    [prog |-> "lpr",
     size |-> <<AsU32Tenths(o.width_mm), AsU32Tenths(o.height_mm)>>,
     unit |-> "PageSize=Custom tenths", printer |-> o.printer_name,
     opts |-> {"fit-to-page=false", "scaling=100", "print-scaling=none"},
     input |-> <<>>, file |-> output, outcome |-> "running"]

OpenCommandWk(output) ==
    [prog |-> "opener", size |-> <<>>, unit |-> "", printer |-> <<>>,
     opts |-> {}, input |-> <<>>, file |-> output, outcome |-> "running"]

OpenCommandWeasy(output) ==
    [prog |-> "opener", size |-> <<>>, unit |-> "", printer |-> <<>>,
     opts |-> {}, input |-> <<>>, file |-> output, outcome |-> "running"]

(* --------------------------- match arms -------------------------------- *)

\* variant: a wkhtmltopdf that cannot be spawned ends the invocation
WkMatch_NoFallback(outcome) ==
    CASE outcome = "exit0"    -> "dispatch_wk"
      [] outcome = "exitnz"   -> "return"
      [] outcome = "notfound" -> "return"

\* variant: the success arm does not return and falls through to weasyprint
WkMatch_FallsThroughOnSuccess(outcome) ==
    CASE outcome = "exit0"    -> "launch_weasy"
      [] outcome = "exitnz"   -> "return"
      [] outcome = "notfound" -> "launch_weasy"

\* variant: a rejected input is dispatched as if it had been rendered
WkMatch_DispatchesOnFailure(outcome) ==
    CASE outcome = "exit0"    -> "dispatch_wk"
      [] outcome = "exitnz"   -> "dispatch_wk"
      [] outcome = "notfound" -> "launch_weasy"

\* `match result` on the wkhtmltopdf output: where control goes
WkMatch(outcome) ==
    CASE outcome = "exit0"    -> "dispatch_wk"
      [] outcome = "exitnz"   -> "return"
      [] outcome = "notfound" -> "launch_weasy"

\* `match result` on the weasyprint output
WeasyMatch(outcome) ==
    CASE outcome = "exit0"    -> "dispatch_weasy"
      [] outcome = "exitnz"   -> "return"
      [] outcome = "notfound" -> "return"

WkError(outcome) == Err("wkhtmltopdf failed: {}", <<"stderr">>)

\* variant: the weasyprint failure arm also reports that no generator exists
WeasyError_AlwaysNoGenerator(outcome) ==
    Err("No PDF generator found. Please install wkhtmltopdf or weasyprint", <<>>)

WeasyError(outcome) ==
    IF outcome = "exitnz"
    THEN Err("weasyprint failed: {}", <<"stderr">>)
    ELSE Err("No PDF generator found. Please install wkhtmltopdf or weasyprint", <<>>)

\* variant: the printer_name test is dropped and the viewer is always used
DestinationWk_AlwaysView(o) == "view"

\* `if let Some(printer_name) = &options.printer_name`
DestinationWk(o) == IF o.printer_name /= <<>> THEN "print" ELSE "view"
DestinationWeasy(o) == IF o.printer_name /= <<>> THEN "print" ELSE "view"

\* variant: the existence check is left out of the weasyprint branch
PdfMissingWeasy_Unchecked(path, fs) == FALSE

\* `if !Path::new(&pdf_path_str).exists()`: TRUE when the print branch
\* returns the missing-file error
PdfMissingWk(path, fs) == path \notin fs
PdfMissingWeasy(path, fs) == path \notin fs

MissingError(path) == Err("PDF file does not exist at: {}", path)

\* `match print_result`
PrintResultWk(outcome, o) ==
    CASE outcome = "exit0"    -> Ok("Printed to {}", o.printer_name)
      [] outcome = "exitnz"   -> Err("Failed to print: {}", <<"stderr">>)
      [] outcome = "notfound" -> Err("Failed to execute lpr command: {}", <<"io_error">>)

\* variant: the duplicated branch answers with a different success text
PrintResultWeasy_OtherMessage(outcome, o) ==
    CASE outcome = "exit0"    -> Ok("Sent to printer: {}", o.printer_name)
      [] outcome = "exitnz"   -> Err("Failed to print: {}", <<"stderr">>)
      [] outcome = "notfound" -> Err("Failed to execute lpr command: {}", <<"io_error">>)

PrintResultWeasy(outcome, o) ==
    CASE outcome = "exit0"    -> Ok("Printed to {}", o.printer_name)
      [] outcome = "exitnz"   -> Err("Failed to print: {}", <<"stderr">>)
      [] outcome = "notfound" -> Err("Failed to execute lpr command: {}", <<"io_error">>)

\* variant: the error of opener::open is discarded instead of propagated
OpenResultWeasy_IgnoresFailure(outcome, path) == Ok("{}", path)

\* `opener::open(..).map_err(..)?; return Ok(pdf_path_str)`
OpenResultWk(outcome, path) ==
    IF outcome = "exit0" THEN Ok("{}", path)
    ELSE Err("Failed to open PDF: {}", <<"io_error">>)

OpenResultWeasy(outcome, path) ==
    IF outcome = "exit0" THEN Ok("{}", path)
    ELSE Err("Failed to open PDF: {}", <<"io_error">>)

(* ----------------------------- helpers --------------------------------- *)

\* variant: the temporary file is persisted (kept) instead of deleted on drop
DropTempHtml_Keeps(state) == state

\* the state of the temporary input file once temp_html is dropped
DropTempHtml(state) == "absent"

\* leaving generate_pdf with result r: temp_html goes out of scope
Return(p, r) ==
    /\ pc' = [pc EXCEPT ![p] = "done"]
    /\ result' = [result EXCEPT ![p] = r]
    /\ html_file' = [html_file EXCEPT ![p] = DropTempHtml(html_file[p])]

Goto(p, label) ==
    /\ pc' = [pc EXCEPT ![p] = label]
    /\ UNCHANGED <<result, html_file>>

\* Command::output() of a program that was spawned / could not be spawned
Start(p, cmd) ==
    launched' = [launched EXCEPT ![p] = Append(@, cmd)]

StartFailed(p, cmd) ==
    launched' = [launched EXCEPT ![p] = Append(@, [cmd EXCEPT !.outcome = "notfound"])]

\* the command that is running exits
Exit(p, outcome) ==
    launched' = [launched EXCEPT ![p] = [@ EXCEPT ![Len(@)].outcome = outcome]]

(* ----------------------------- actions --------------------------------- *)

\* Builder::new().suffix(".html").tempfile()
CreateTempHtml(p) ==
    /\ pc[p] = "start"
    /\ \E created \in BOOLEAN :
         IF created
         THEN /\ pc' = [pc EXCEPT ![p] = "write_html"]
              /\ html_file' = [html_file EXCEPT ![p] = "empty"]
              /\ UNCHANGED result
         ELSE Return(p, Err("Failed to create temp HTML file: {}", <<"io_error">>))
    /\ UNCHANGED <<lpvars, options, pdf_path, files, now, launched>>

\* variant: the error of fs::write is dropped and the pipeline goes on
WriteHtml_IgnoresError(p) ==
    /\ pc[p] = "write_html"
    /\ \E written \in BOOLEAN :
         /\ pc' = [pc EXCEPT ![p] = "alloc_pdf_path"]
         /\ html_file' = [html_file EXCEPT ![p] = IF written THEN "written" ELSE @]
         /\ UNCHANGED result
    /\ UNCHANGED <<lpvars, options, pdf_path, files, now, launched>>

\* fs::write(&html_path, &options.html)
WriteHtml(p) ==
    /\ pc[p] = "write_html"
    /\ \E written \in BOOLEAN :
         IF written
         THEN /\ pc' = [pc EXCEPT ![p] = "alloc_pdf_path"]
              /\ html_file' = [html_file EXCEPT ![p] = "written"]
              /\ UNCHANGED result
         ELSE Return(p, Err("Failed to write HTML file: {}", <<"io_error">>))
    /\ UNCHANGED <<lpvars, options, pdf_path, files, now, launched>>

\* pdf_path = temp_dir.join(format!("label_{}.pdf", now.as_millis()))
AllocPdfPath(p) ==
    /\ pc[p] = "alloc_pdf_path"
    /\ pdf_path' = [pdf_path EXCEPT ![p] = PdfPath(now)]
    /\ Goto(p, "launch_wk")
    /\ UNCHANGED <<lpvars, options, files, now, launched>>

\* Command::new("wkhtmltopdf")...output(): the spawn, and the Err(e) arm
LaunchWk(p) ==
    /\ pc[p] = "launch_wk"
    /\ LET cmd == WkhtmltopdfCommand(options[p], HtmlPath(p), pdf_path[p]) IN
       \E found \in BOOLEAN :
         IF found
         THEN /\ Start(p, cmd)
              /\ Goto(p, "wait_wk")
         ELSE /\ StartFailed(p, cmd)
              /\ IF WkMatch("notfound") = "return"
                 THEN Return(p, WkError("notfound"))
                 ELSE Goto(p, WkMatch("notfound"))
    /\ UNCHANGED <<lpvars, options, pdf_path, files, now>>

\* wkhtmltopdf exits: the Ok(output) arms
WkExit(p) ==
    /\ pc[p] = "wait_wk"
    /\ \E outcome \in {"exit0", "exitnz"}, wrote \in BOOLEAN :
         /\ Exit(p, outcome)
         /\ files' = IF wrote THEN files \cup {pdf_path[p]} ELSE files
         /\ IF WkMatch(outcome) = "return"
            THEN Return(p, WkError(outcome))
            ELSE Goto(p, WkMatch(outcome))
    /\ UNCHANGED <<lpvars, options, pdf_path, now>>

\* Command::new("weasyprint")...output(): the spawn, and the Err(_) arm
LaunchWeasy(p) ==
    /\ pc[p] = "launch_weasy"
    /\ LET cmd == WeasyprintCommand(options[p], HtmlPath(p), pdf_path[p]) IN
       \E found \in BOOLEAN :
         IF found
         THEN /\ Start(p, cmd)
              /\ Goto(p, "wait_weasy")
         ELSE /\ StartFailed(p, cmd)
              /\ IF WeasyMatch("notfound") = "return"
                 THEN Return(p, WeasyError("notfound"))
                 ELSE Goto(p, WeasyMatch("notfound"))
    /\ UNCHANGED <<lpvars, options, pdf_path, files, now>>

\* weasyprint exits: the Ok(output) arms
WeasyExit(p) ==
    /\ pc[p] = "wait_weasy"
    /\ \E outcome \in {"exit0", "exitnz"}, wrote \in BOOLEAN :
         /\ Exit(p, outcome)
         /\ files' = IF wrote THEN files \cup {pdf_path[p]} ELSE files
         /\ IF WeasyMatch(outcome) = "return"
            THEN Return(p, WeasyError(outcome))
            ELSE Goto(p, WeasyMatch(outcome))
    /\ UNCHANGED <<lpvars, options, pdf_path, now>>

\* the success arm of the wkhtmltopdf match, up to the dispatcher's spawn
DispatchWk(p) ==
    /\ pc[p] = "dispatch_wk"
    /\ IF DestinationWk(options[p]) = "print"
       THEN IF PdfMissingWk(pdf_path[p], files)
            THEN /\ Return(p, MissingError(pdf_path[p]))
                 /\ UNCHANGED launched
            ELSE LET cmd == LprCommandWk(options[p], pdf_path[p]) IN
                 \E found \in BOOLEAN :
                   IF found
                   THEN /\ Start(p, cmd)
                        /\ Goto(p, "wait_lpr_wk")
                   ELSE /\ StartFailed(p, cmd)
                        /\ Return(p, PrintResultWk("notfound", options[p]))
       ELSE /\ Start(p, OpenCommandWk(pdf_path[p]))
            /\ Goto(p, "wait_open_wk")
    /\ UNCHANGED <<lpvars, options, pdf_path, files, now>>

\* variant: a failed print falls back to the next renderer
LprExitWk_RetriesRenderer(p) ==
    /\ pc[p] = "wait_lpr_wk"
    /\ \E outcome \in {"exit0", "exitnz"} :
         /\ Exit(p, outcome)
         /\ IF outcome = "exit0"
            THEN Return(p, PrintResultWk(outcome, options[p]))
            ELSE Goto(p, "launch_weasy")
    /\ UNCHANGED <<lpvars, options, pdf_path, files, now>>

\* lpr exits (branch after wkhtmltopdf)
LprExitWk(p) ==
    /\ pc[p] = "wait_lpr_wk"
    /\ \E outcome \in {"exit0", "exitnz"} :
         /\ Exit(p, outcome)
         /\ Return(p, PrintResultWk(outcome, options[p]))
    /\ UNCHANGED <<lpvars, options, pdf_path, files, now>>

\* opener::open returns (branch after wkhtmltopdf)
OpenReturnWk(p) ==
    /\ pc[p] = "wait_open_wk"
    /\ \E outcome \in {"exit0", "exitnz"} :
         /\ Exit(p, outcome)
         /\ Return(p, OpenResultWk(outcome, pdf_path[p]))
    /\ UNCHANGED <<lpvars, options, pdf_path, files, now>>

\* the success arm of the weasyprint match, up to the dispatcher's spawn
DispatchWeasy(p) ==
    /\ pc[p] = "dispatch_weasy"
    /\ IF DestinationWeasy(options[p]) = "print"
       THEN IF PdfMissingWeasy(pdf_path[p], files)
            THEN /\ Return(p, MissingError(pdf_path[p]))
                 /\ UNCHANGED launched
            ELSE LET cmd == LprCommandWeasy(options[p], pdf_path[p]) IN
                 \E found \in BOOLEAN :
                   IF found
                   THEN /\ Start(p, cmd)
                        /\ Goto(p, "wait_lpr_weasy")
                   ELSE /\ StartFailed(p, cmd)
                        /\ Return(p, PrintResultWeasy("notfound", options[p]))
       ELSE /\ Start(p, OpenCommandWeasy(pdf_path[p]))
            /\ Goto(p, "wait_open_weasy")
    /\ UNCHANGED <<lpvars, options, pdf_path, files, now>>

\* lpr exits (branch after weasyprint)
LprExitWeasy(p) ==
    /\ pc[p] = "wait_lpr_weasy"
    /\ \E outcome \in {"exit0", "exitnz"} :
         /\ Exit(p, outcome)
         /\ Return(p, PrintResultWeasy(outcome, options[p]))
    /\ UNCHANGED <<lpvars, options, pdf_path, files, now>>

\* opener::open returns (branch after weasyprint)
OpenReturnWeasy(p) ==
    /\ pc[p] = "wait_open_weasy"
    /\ \E outcome \in {"exit0", "exitnz"} :
         /\ Exit(p, outcome)
         /\ Return(p, OpenResultWeasy(outcome, pdf_path[p]))
    /\ UNCHANGED <<lpvars, options, pdf_path, files, now>>

\* a millisecond of wall-clock time passes
Tick ==
    /\ now < MaxClock
    /\ now' = now + 1
    /\ UNCHANGED <<lpvars, pc, options, html_file, pdf_path, files, launched, result>>

(* --------------------------- list_printers ----------------------------- *)

Newline == "\n"
Whitespace == {" ", Newline}

\* the characters lpstat may print
Chars == {"a", "b"} \cup Whitespace

RECURSIVE SeqsUpTo(_)
SeqsUpTo(n) ==
    IF n = 0 THEN {<<>>}
    ELSE LET shorter == SeqsUpTo(n - 1) IN
         shorter \cup {Append(t, c) : t \in {u \in shorter : Len(u) = n - 1}, c \in Chars}

Stdouts == SeqsUpTo(MaxStdout)

\* str::lines(): the pieces between line feeds; a final line feed ends the
\* last line and opens no empty one
RECURSIVE Lines(_)
Lines(s) ==
    IF s = <<>> THEN <<>>
    ELSE LET breaks == {i \in 1..Len(s) : s[i] = Newline} IN
         IF breaks = {} THEN <<s>>
         ELSE LET k == CHOOSE i \in breaks : \A j \in breaks : i <= j IN
              <<SubSeq(s, 1, k - 1)>> \o Lines(SubSeq(s, k + 1, Len(s)))

RECURSIVE TrimStart(_)
TrimStart(s) ==
    IF s /= <<>> /\ Head(s) \in Whitespace THEN TrimStart(Tail(s)) ELSE s

RECURSIVE TrimEnd(_)
TrimEnd(s) ==
    IF s /= <<>> /\ s[Len(s)] \in Whitespace
    THEN TrimEnd(SubSeq(s, 1, Len(s) - 1)) ELSE s

\* variant: only leading whitespace is removed
Trim_StartOnly(s) == TrimStart(s)

\* str::trim()
Trim(s) == TrimEnd(TrimStart(s))

IsEmpty(line) == line = <<>>

\* stdout.lines().map(trim).filter(!is_empty).collect()
ParsePrinters(stdout) ==
    LET lines == Lines(stdout)
        trimmed == [i \in 1..Len(lines) |-> Trim(lines[i])]
    IN  SelectSeq(trimmed, LAMBDA line : ~IsEmpty(line))

LpOk(printers) == [ok |-> TRUE, msg |-> "", printers |-> printers]
LpErr(msg) == [ok |-> FALSE, msg |-> msg, printers |-> <<>>]
LpNoResult == [ok |-> FALSE, msg |-> "pending", printers |-> <<>>]

\* variant: an empty printer list is reported as a failure
LpstatResult_EmptyIsError(status, stdout) ==
    IF status /= "exit0" \/ ParsePrinters(stdout) = <<>>
    THEN LpErr("Failed to get printer list")
    ELSE LpOk(ParsePrinters(stdout))

\* what list_printers returns once lpstat was spawned and has exited
LpstatResult(status, stdout) ==
    IF status /= "exit0"
    THEN LpErr("Failed to get printer list")
    ELSE LpOk(ParsePrinters(stdout))

\* Command::new("lpstat").arg("-e").output(): the spawn, and map_err(..)?
LaunchLpstat ==
    /\ lp_pc = "start"
    /\ \E found \in BOOLEAN :
         IF found
         THEN /\ lp_pc' = "wait_lpstat"
              /\ lp_run' = "running"
              /\ UNCHANGED lp_result
         ELSE /\ lp_pc' = "done"
              /\ lp_run' = "notfound"
              /\ lp_result' = LpErr("Failed to execute lpstat: {}")
    /\ UNCHANGED <<lp_stdout, pc, options, html_file, pdf_path, files, now, launched, result>>

\* lpstat exits; the status test and the parse of its output
LpstatExit ==
    /\ lp_pc = "wait_lpstat"
    /\ \E status \in {"exit0", "exitnz"}, out \in Stdouts :
         /\ lp_run' = status
         /\ lp_stdout' = out
         /\ lp_result' = LpstatResult(status, out)
    /\ lp_pc' = "done"
    /\ UNCHANGED <<pc, options, html_file, pdf_path, files, now, launched, result>>

(* -------------------------- specification ------------------------------ *)

\* the invocations in `called` are made; the others never are
InitWith(called) ==
    /\ pc = [p \in Invocations |-> IF p \in called THEN "start" ELSE "idle"]
    /\ options \in [Invocations -> PrintOptions]
    /\ \A p \in Invocations \ called :
         options[p] = [width_mm |-> 6200, height_mm |-> 10000, printer_name |-> <<>>]
    /\ html_file = [p \in Invocations |-> "absent"]
    /\ pdf_path = [p \in Invocations |-> <<>>]
    /\ files = {}
    /\ now = 0
    /\ launched = [p \in Invocations |-> <<>>]
    /\ result = [p \in Invocations |-> NoResult]

InitListPrinters(called) ==
    /\ lp_pc = IF called THEN "start" ELSE "idle"
    /\ lp_run = "none"
    /\ lp_stdout = <<>>
    /\ lp_result = LpNoResult

\* one call of generate_pdf
Init == InitWith({1}) /\ InitListPrinters(FALSE)

Next ==
    \/ \E p \in Invocations : CreateTempHtml(p)
    \/ \E p \in Invocations : WriteHtml(p)
    \/ \E p \in Invocations : AllocPdfPath(p)
    \/ \E p \in Invocations : LaunchWk(p)
    \/ \E p \in Invocations : WkExit(p)
    \/ \E p \in Invocations : LaunchWeasy(p)
    \/ \E p \in Invocations : WeasyExit(p)
    \/ \E p \in Invocations : DispatchWk(p)
    \/ \E p \in Invocations : LprExitWk(p)
    \/ \E p \in Invocations : OpenReturnWk(p)
    \/ \E p \in Invocations : DispatchWeasy(p)
    \/ \E p \in Invocations : LprExitWeasy(p)
    \/ \E p \in Invocations : OpenReturnWeasy(p)
    \/ Tick

Spec == Init /\ [][Next]_vars

\* the steps of invocation p
Step(p) ==
    \/ CreateTempHtml(p)
    \/ WriteHtml(p)
    \/ AllocPdfPath(p)
    \/ LaunchWk(p)
    \/ WkExit(p)
    \/ LaunchWeasy(p)
    \/ WeasyExit(p)
    \/ DispatchWk(p)
    \/ LprExitWk(p)
    \/ OpenReturnWk(p)
    \/ DispatchWeasy(p)
    \/ LprExitWeasy(p)
    \/ OpenReturnWeasy(p)

\* the function body runs on, and every command that was launched exits
FairSpec == Spec /\ \A p \in Invocations : WF_vars(Step(p))

\* two overlapping calls of generate_pdf
ConcurrentOptions == [width_mm : {6205}, height_mm : {10000},
                      printer_name : {<<>>, <<"BrotherQL">>}]

InitConc ==
    /\ pc = [p \in Invocations |-> "start"]
    /\ options \in [Invocations -> ConcurrentOptions]
    /\ html_file = [p \in Invocations |-> "absent"]
    /\ pdf_path = [p \in Invocations |-> <<>>]
    /\ files = {}
    /\ now = 0
    /\ launched = [p \in Invocations |-> <<>>]
    /\ result = [p \in Invocations |-> NoResult]
    /\ InitListPrinters(FALSE)

SpecConc == InitConc /\ [][Next]_vars

\* one call of list_printers
InitList == InitWith({}) /\ InitListPrinters(TRUE)

NextList ==
    \/ LaunchLpstat
    \/ LpstatExit

SpecList == InitList /\ [][NextList]_vars

(* ------------------- observations used by the properties --------------- *)

Renderers == {"wkhtmltopdf", "weasyprint"}
Dispatchers == {"lpr", "opener"}

\* positions in invocation p's command log that ran one of `progs`
Runs(p, progs) == {i \in 1..Len(launched[p]) : launched[p][i].prog \in progs}

\* some program of `progs` exited with status zero in invocation p
Succeeded(p, progs) == \E i \in Runs(p, progs) : launched[p][i].outcome = "exit0"

\* the first command of p was wkhtmltopdf and it ended with `outcome`
WkEnded(p, outcome) ==
    /\ Len(launched[p]) >= 1
    /\ launched[p][1].prog = "wkhtmltopdf"
    /\ launched[p][1].outcome = outcome

InvalidDimensions(o) == o.width_mm <= 0 \/ o.height_mm <= 0

\* the (renderer, reason) pairs an error message of the chain names
ErrorAttempts(r) ==
    CASE r.msg = "wkhtmltopdf failed: {}" -> <<<<"wkhtmltopdf", "exitnz">>>>
      [] r.msg = "weasyprint failed: {}"  -> <<<<"weasyprint", "exitnz">>>>
      [] r.msg = "No PDF generator found. Please install wkhtmltopdf or weasyprint"
           -> <<<<"wkhtmltopdf", "notfound">>, <<"weasyprint", "notfound">>>>
      [] OTHER -> <<>>

\* the (renderer, reason) pairs of the renderers invocation p tried, in order
TriedAttempts(p) ==
    [i \in 1..Cardinality(Runs(p, Renderers)) |->
        <<launched[p][i].prog, launched[p][i].outcome>>]

(* ----------------------------- properties ------------------------------ *)

\* C1: when wkhtmltopdf runs and exits with a non-zero status, the chain
\* proceeds to weasyprint: an invocation that has returned after such an
\* exit has launched weasyprint after it.
C1_RejectionTriesNextRenderer ==
    \A p \in Invocations :
        (pc[p] = "done" /\ WkEnded(p, "exitnz"))
            => \E j \in Runs(p, {"weasyprint"}) : j > 1

\* C2: when wkhtmltopdf cannot be launched the invocation does not fail on
\* that alone but goes on to weasyprint; when weasyprint then exits with
\* status zero and the PDF is at the output path, the invocation has
\* dispatched that PDF by the time it returns, and it returns success
\* exactly when the dispatcher succeeded.
C2_NotInstalledFallsBackToWeasyprint ==
    \A p \in Invocations :
        WkEnded(p, "notfound") =>
            LET L == launched[p] IN
            /\ Len(L) = 1 => (pc[p] = "launch_weasy" /\ result[p] = NoResult)
            /\ Len(L) >= 2 => L[2].prog = "weasyprint"
            /\ (/\ Len(L) >= 2
                /\ L[2].outcome = "exit0"
                /\ pdf_path[p] \in files
                /\ pc[p] = "done")
               => /\ Len(L) = 3
                  /\ L[3].prog \in Dispatchers
                  /\ L[3].file = pdf_path[p]
                  /\ result[p].ok <=> L[3].outcome = "exit0"

C2_Witness ==
    \E p \in Invocations :
        /\ pc[p] = "done"
        /\ WkEnded(p, "notfound")
        /\ Len(launched[p]) = 3
        /\ launched[p][2].outcome = "exit0"
        /\ result[p].ok

\* C3: renderers are launched in the order wkhtmltopdf, weasyprint, each at
\* most once, and weasyprint is never launched once wkhtmltopdf has exited
\* with status zero.
C3_FixedOrderStopsAtFirstSuccess ==
    \A p \in Invocations :
        /\ Cardinality(Runs(p, {"wkhtmltopdf"})) <= 1
        /\ Cardinality(Runs(p, {"weasyprint"})) <= 1
        /\ \A j \in Runs(p, {"weasyprint"}) :
             /\ j = 2
             /\ launched[p][1].prog = "wkhtmltopdf"
             /\ launched[p][1].outcome /= "exit0"
        /\ \A i \in Runs(p, {"wkhtmltopdf"}) : i = 1

C3_Witness ==
    \E p \in Invocations :
        /\ pc[p] = "done"
        /\ WkEnded(p, "exit0")
        /\ Runs(p, {"weasyprint"}) = {}

\* C4: with width_mm or height_mm not greater than zero, generate_pdf
\* launches no external process and returns an error.
C4_InvalidDimensionsLaunchNothing ==
    \A p \in Invocations :
        InvalidDimensions(options[p]) =>
            /\ launched[p] = <<>>
            /\ pc[p] = "done" => ~result[p].ok

\* C5: lpr is launched only with a printer_name, the viewer only without
\* one, never both in one invocation and each at most once; without a
\* printer_name a successful invocation returns the output path, which ends
\* in ".pdf".
C5_DestinationsMutuallyExclusive ==
    \A p \in Invocations :
        /\ Runs(p, {"lpr"}) /= {} => options[p].printer_name /= <<>>
        /\ Runs(p, {"opener"}) /= {} => options[p].printer_name = <<>>
        /\ Runs(p, {"lpr"}) = {} \/ Runs(p, {"opener"}) = {}
        /\ Cardinality(Runs(p, {"lpr"})) <= 1
        /\ Cardinality(Runs(p, {"opener"})) <= 1
        /\ (pc[p] = "done" /\ result[p].ok /\ options[p].printer_name = <<>>)
             => /\ result[p] = Ok("{}", pdf_path[p])
                /\ pdf_path[p] /= <<>>
                /\ result[p].arg[Len(result[p].arg)] = ".pdf"

C5_Witness ==
    \E p \in Invocations :
        /\ pc[p] = "done"
        /\ result[p].ok
        /\ options[p].printer_name = <<>>
        /\ Runs(p, {"opener"}) /= {}

\* C6: when a renderer exited with status zero and no file exists at the
\* output path, no dispatcher is invoked and the invocation returns the
\* missing-file error, for either destination.
C6_MissingArtifactNeverDispatched ==
    \A p \in Invocations :
        (Succeeded(p, Renderers) /\ pdf_path[p] \notin files)
            => /\ Runs(p, Dispatchers) = {}
               /\ pc[p] = "done" => result[p] = MissingError(pdf_path[p])

\* C7: with a printer requested, lpr is launched only if the PDF exists at
\* the output path; if it is absent after a renderer's success, the
\* invocation returns the 'PDF file does not exist' error and no lpr is
\* launched, whichever renderer succeeded.
C7_LprOnlyForExistingPdf ==
    \A p \in Invocations :
        /\ \A i \in Runs(p, {"lpr"}) : launched[p][i].file \in files
        /\ (/\ pc[p] = "done"
            /\ options[p].printer_name /= <<>>
            /\ Succeeded(p, Renderers)
            /\ pdf_path[p] \notin files)
           => /\ result[p] = MissingError(pdf_path[p])
              /\ Runs(p, {"lpr"}) = {}

C7_Witness ==
    \E p \in Invocations :
        /\ pc[p] = "done"
        /\ options[p].printer_name /= <<>>
        /\ Succeeded(p, {"weasyprint"})
        /\ result[p] = MissingError(pdf_path[p])

\* C8: a dispatcher (lpr or the viewer) is invoked at most once and nothing
\* is launched after it; when it fails (non-zero exit, or lpr cannot be
\* launched) the invocation has returned an error.
C8_NoRetryAfterDispatch ==
    \A p \in Invocations :
        /\ Cardinality(Runs(p, Dispatchers)) <= 1
        /\ \A i \in Runs(p, Dispatchers) :
             /\ i = Len(launched[p])
             /\ launched[p][i].outcome \in {"exitnz", "notfound"}
                  => (pc[p] = "done" /\ ~result[p].ok)

C8_Witness ==
    \E p \in Invocations :
        /\ pc[p] = "done"
        /\ \E i \in Runs(p, {"lpr"}) : launched[p][i].outcome = "exitnz"
        /\ ~result[p].ok

\* C9: a returned result is a success only if a renderer exited with status
\* zero and the dispatcher then succeeded; 'Printed to <name>' is returned
\* if and only if lpr exited with status zero for that printer name.
C9_SuccessOnlyFromRenderAndDispatch ==
    \A p \in Invocations :
        pc[p] = "done" =>
            /\ result[p].ok =>
                 (Succeeded(p, Renderers) /\ Succeeded(p, Dispatchers))
            /\ \A n \in PrinterNames :
                 result[p] = Ok("Printed to {}", <<n>>)
                   <=> \E i \in Runs(p, {"lpr"}) :
                         /\ launched[p][i].outcome = "exit0"
                         /\ launched[p][i].printer = <<n>>

C9_Witness ==
    \E p \in Invocations :
        /\ pc[p] = "done"
        /\ result[p] = Ok("Printed to {}", <<"Zebra">>)
        /\ Succeeded(p, {"lpr"})

\* C10: when every renderer tried has failed, the returned error names
\* every renderer that was tried with its failure reason, in invocation
\* order.
C10_ErrorNamesEveryAttempt ==
    \A p \in Invocations :
        (/\ pc[p] = "done"
         /\ Runs(p, Renderers) /= {}
         /\ ~Succeeded(p, Renderers))
        => ErrorAttempts(result[p]) = TriedAttempts(p)

\* C11: the 'No PDF generator found' error is returned if and only if
\* both wkhtmltopdf and weasyprint could not be launched; it is never
\* returned when a renderer ran and exited.
C11_NoGeneratorIffNoneLaunchable ==
    \A p \in Invocations :
        pc[p] = "done" =>
            (result[p] = Err("No PDF generator found. Please install wkhtmltopdf or weasyprint", <<>>)
               <=> /\ Runs(p, {"wkhtmltopdf"}) /= {}
                   /\ Runs(p, {"weasyprint"}) /= {}
                   /\ \A i \in Runs(p, Renderers) : launched[p][i].outcome = "notfound")

C11_Witness ==
    \E p \in Invocations :
        /\ pc[p] = "done"
        /\ result[p].msg = "No PDF generator found. Please install wkhtmltopdf or weasyprint"
        /\ Len(launched[p]) = 2
        /\ \A i \in Runs(p, Renderers) : launched[p][i].outcome = "notfound"

\* C12: when the temporary input file cannot be created or written,
\* generate_pdf returns an error and has launched no external process; a
\* running invocation launches a process only with its input file written.
C12_MaterializeFailureLaunchesNothing ==
    \A p \in Invocations :
        /\ result[p].msg \in {"Failed to create temp HTML file: {}",
                              "Failed to write HTML file: {}"}
             => (pc[p] = "done" /\ ~result[p].ok /\ launched[p] = <<>>)
        /\ pc[p] \in {"start", "write_html"} => launched[p] = <<>>
        /\ (launched[p] /= <<>> /\ pc[p] /= "done") => html_file[p] = "written"

C12_Witness ==
    \E p \in Invocations :
        /\ pc[p] = "done"
        /\ result[p] = Err("Failed to write HTML file: {}", <<"io_error">>)
        /\ launched[p] = <<>>

\* C13: two invocations of generate_pdf that are in flight together never
\* have the same output path.
C13_ConcurrentPathsDistinct ==
    \A p, q \in Invocations :
        (/\ p /= q
         /\ pc[p] \notin {"idle", "done"} /\ pc[q] \notin {"idle", "done"}
         /\ pdf_path[p] /= <<>> /\ pdf_path[q] /= <<>>)
        => pdf_path[p] /= pdf_path[q]

\* the stage of the pipeline a position belongs to: Received,
\* Materializing, Rendering, Dispatching, terminal
Stage(label) ==
    CASE label \in {"idle", "start"}                                   -> 0
      [] label \in {"write_html", "alloc_pdf_path"}                     -> 1
      [] label \in {"launch_wk", "wait_wk", "launch_weasy", "wait_weasy"} -> 2
      [] label = "done"                                                 -> 4
      [] OTHER                                                          -> 3

\* C14: when every launched command exits, every invocation eventually
\* returns; its stages only advance (Materializing, Rendering,
\* Dispatching, terminal); a dispatcher is invoked only after a renderer
\* exited with status zero, and a renderer is launched only once the input
\* file has been written.
C14_TerminatesInStageOrder ==
    /\ \A p \in Invocations : (pc[p] = "start") ~> (pc[p] = "done")
    /\ [][\A p \in Invocations :
            /\ Stage(pc[p]) <= Stage(pc'[p])
            /\ (Len(launched'[p]) > Len(launched[p])
                  /\ launched'[p][Len(launched'[p])].prog \in Renderers)
                 => html_file[p] = "written"]_vars
    /\ [](\A p \in Invocations : \A i \in Runs(p, Dispatchers) :
            \E j \in Runs(p, Renderers) :
                j < i /\ launched[p][j].outcome = "exit0")

C14_Witness ==
    \E p \in Invocations :
        /\ pc[p] = "done"
        /\ Len(launched[p]) = 3
        /\ launched[p][2].prog = "weasyprint"
        /\ launched[p][3].prog = "opener"
        /\ launched[p][3].outcome = "exitnz"

\* C15: list_printers returns an empty list, not an error, when lpstat
\* exits with status zero and prints no printer name; it returns an error
\* if and only if lpstat cannot be launched or exits with a non-zero status.
C15_EmptyListIsNotAnError ==
    lp_pc = "done" =>
        /\ ~lp_result.ok <=> lp_run \in {"notfound", "exitnz"}
        /\ (lp_run = "exit0" /\ \A i \in 1..Len(lp_stdout) : lp_stdout[i] \in Whitespace)
             => lp_result = LpOk(<<>>)

C15_Witness ==
    /\ lp_pc = "done"
    /\ lp_run = "exit0"
    /\ lp_stdout = <<" ", Newline>>
    /\ lp_result = LpOk(<<>>)

\* round(mm * 10), half away from zero, of a positive length given in
\* hundredths of a millimetre
RoundTenths(mm100) == (mm100 + 5) \div 10

\* C16: for positive width_mm and height_mm, the tenths-of-millimetre
\* values in the PageSize=Custom.WxH option of lpr are round(mm * 10),
\* rounding half away from zero.
C16_TenthsAreRounded ==
    \A p \in Invocations : \A i \in Runs(p, {"lpr"}) :
        (options[p].width_mm > 0 /\ options[p].height_mm > 0)
            => launched[p][i].size = <<RoundTenths(options[p].width_mm),
                                       RoundTenths(options[p].height_mm)>>

\* C17: when printing, lpr is launched exactly once; its page size is
\* computed from the width/height pair that was passed to the renderer
\* which produced the PDF (each value is that dimension in tenths of a
\* millimetre, cut to a whole number); for whole-millimetre W x H it is
\* Custom.(10*W)x(10*H), 62 x 100 giving 620x1000; fit-to-page=false and
\* scaling=100 are always among the options.
C17_PageSizeFromRenderedDimensions ==
    \A p \in Invocations :
        /\ (/\ pc[p] = "done"
            /\ options[p].printer_name /= <<>>
            /\ Succeeded(p, Renderers)
            /\ pdf_path[p] \in files)
           => Cardinality(Runs(p, {"lpr"})) = 1
        /\ \A i \in Runs(p, {"lpr"}) :
             LET lpr == launched[p][i]
                 renderer == launched[p][i - 1]
             IN  /\ i > 1
                 /\ renderer.prog \in Renderers
                 /\ renderer.outcome = "exit0"
                 /\ renderer.file = lpr.file
                 /\ \A k \in 1..2 :
                      /\ renderer.size[k] > 0 =>
                           (/\ lpr.size[k] * 10 <= renderer.size[k]
                            /\ renderer.size[k] < lpr.size[k] * 10 + 10)
                      /\ renderer.size[k] <= 0 => lpr.size[k] = 0
                      /\ (renderer.size[k] > 0 /\ renderer.size[k] % 100 = 0)
                           => lpr.size[k] = 10 * (renderer.size[k] \div 100)
                 /\ renderer.size = <<6200, 10000>> => lpr.size = <<620, 1000>>
                 /\ {"fit-to-page=false", "scaling=100"} \subseteq lpr.opts

C17_Witness ==
    \E p \in Invocations :
        /\ pc[p] = "done"
        /\ result[p] = Ok("Printed to {}", <<"BrotherQL">>)
        /\ Len(launched[p]) = 3
        /\ launched[p][2].prog = "weasyprint"
        /\ launched[p][2].size = <<6200, 10000>>
        /\ launched[p][3].size = <<620, 1000>>

\* C18: generate_pdf never deletes an output PDF: a file a renderer has
\* written still exists in every later state, in particular when the
\* invocation returns; the temporary input file exists while the
\* invocation runs and is gone once it has returned, on every path.
C18_PdfKeptInputRemoved ==
    /\ [][files \subseteq files']_vars
    /\ [](\A p \in Invocations :
            /\ pc[p] = "done" => html_file[p] = "absent"
            /\ pc[p] \notin {"idle", "start", "done"} => html_file[p] /= "absent")

C18_Witness ==
    \E p \in Invocations :
        /\ pc[p] = "done"
        /\ pdf_path[p] \in files
        /\ html_file[p] = "absent"
        /\ result[p].ok

\* the non-blank lines of an output, trimmed, in the order printed: the
\* stretches between consecutive line feeds that hold a character other
\* than whitespace, each cut to its first and last such character
NonBlankLinesTrimmed(s) ==
    LET breaks == {0, Len(s) + 1} \cup {i \in 1..Len(s) : s[i] = Newline}
        NextBreak(a) == CHOOSE b \in breaks : b > a /\ \A c \in breaks : c > a => b <= c
        Ink(a) == {i \in (a + 1)..(NextBreak(a) - 1) : s[i] \notin Whitespace}
        starts == {a \in breaks : a <= Len(s) /\ Ink(a) /= {}}
    IN  [k \in 1..Cardinality(starts) |->
            LET a == CHOOSE x \in starts : Cardinality({y \in starts : y < x}) = k - 1
                first == CHOOSE i \in Ink(a) : \A j \in Ink(a) : i <= j
                last == CHOOSE i \in Ink(a) : \A j \in Ink(a) : j <= i
            IN  SubSeq(s, first, last)]

\* C19: for every output of lpstat, list_printers returns exactly the
\* non-blank lines of the output, each trimmed of surrounding whitespace,
\* in the order printed: nothing sorted, merged, dropped or added.
C19_PrintersAreTrimmedNonBlankLines ==
    (lp_pc = "done" /\ lp_run = "exit0")
        => lp_result = LpOk(NonBlankLinesTrimmed(lp_stdout))

C19_Witness ==
    /\ lp_pc = "done"
    /\ lp_run = "exit0"
    /\ lp_stdout = <<"b", " ", Newline, "a">>
    /\ lp_result.printers = << <<"b">>, <<"a">> >>

\* a result with the invocation's own output path abstracted away
ModuloPath(r, path) == IF r.arg = path THEN [r EXCEPT !.arg = <<"pdf_path">>] ELSE r

\* C20: dispatch does not depend on which renderer succeeded. Take two
\* returned invocations with equal options and separate output paths, one
\* rendered by wkhtmltopdf and one by weasyprint, whose output files both
\* exist or both do not and whose dispatchers ended alike: then either
\* both launched no dispatcher or both launched the same command with the
\* same arguments on their own PDF, and both returned the same result.
C20_DispatchIndependentOfRenderer ==
    \A p, q \in Invocations :
        (/\ p /= q
         /\ pc[p] = "done" /\ pc[q] = "done"
         /\ options[p] = options[q]
         /\ pdf_path[p] /= pdf_path[q]
         /\ Succeeded(p, {"wkhtmltopdf"})
         /\ Succeeded(q, {"weasyprint"})
         /\ pdf_path[p] \in files <=> pdf_path[q] \in files
         /\ \A i \in Runs(p, Dispatchers), j \in Runs(q, Dispatchers) :
                launched[p][i].outcome = launched[q][j].outcome)
        => /\ Runs(p, Dispatchers) = {} <=> Runs(q, Dispatchers) = {}
           /\ \A i \in Runs(p, Dispatchers), j \in Runs(q, Dispatchers) :
                /\ launched[p][i].file = pdf_path[p]
                /\ launched[q][j].file = pdf_path[q]
                /\ [launched[p][i] EXCEPT !.file = <<>>]
                     = [launched[q][j] EXCEPT !.file = <<>>]
           /\ ModuloPath(result[p], pdf_path[p]) = ModuloPath(result[q], pdf_path[q])

C20_Witness ==
    \E p, q \in Invocations :
        /\ pc[p] = "done" /\ pc[q] = "done"
        /\ pdf_path[p] /= pdf_path[q]
        /\ Succeeded(p, {"wkhtmltopdf"})
        /\ Succeeded(q, {"weasyprint"})
        /\ result[p] = Ok("Printed to {}", <<"BrotherQL">>)
        /\ result[q] = result[p]

====
